---- MODULE Spec2Model ----
(***************************************************************************)
(* Model of scripts/davinci-resolve-helper.py: the command-line helper     *)
(* that imports JSON marker records into a timeline of the host video      *)
(* editor and exports the timeline's markers back to JSON.                 *)
(*                                                                         *)
(* One behaviour of the model is a sequence of invocations of the script   *)
(* against one file system and one host application.  Each invocation is   *)
(* Start (the command line is fixed), Connect (the module-level import and *)
(* DaVinciResolveHelper.__init__), Dispatch (the if/elif chain of main)    *)
(* and then the selected operation; the import loop takes one step per     *)
(* array entry.                                                            *)
(***************************************************************************)
EXTENDS Integers, Sequences, FiniteSets, TLC

VARIABLES
    hostApi,        \* what the host offers: "noapi", "noresolve", "noproject", "ok"
    current,        \* name of the project's current timeline, or None
    markers,        \* markers of the timeline TimelineName in the host
    fs,             \* content of the file at MarkerPath
    args,           \* the parsed command line of the running invocation
    pc,             \* position of the running invocation
    op,             \* operation selected by main, or None
    ops,            \* operations performed by this invocation, in order
    timeline,       \* timeline resolved by get_timeline, or None
    markers_data,   \* the loaded JSON array (import)
    i,              \* 1-based position of the next array entry (import)
    success_count,  \* success_count of import_markers_from_json
    calls,          \* the AddMarker calls of this invocation, in order
    ret,            \* return value of the selected operation
    exitCode,       \* process exit status, or -1 while running
    out,            \* kinds of message printed by this invocation
    wrote,          \* TRUE when this invocation wrote the file at MarkerPath
    unhandled,      \* TRUE when an exception escaped (traceback)
    markersAtStart  \* markers when this invocation started

vars == <<hostApi, current, markers, fs, args, pc, op, ops, timeline, markers_data,
          i, success_count, calls, ret, exitCode, out, wrote, unhandled, markersAtStart>>

\* ---------------------------------------------------------------- bounds
MaxLen == 2       \* longest JSON array placed in the file initially

\* ---------------------------------------------------------------- values
None == "<None>"

\* Python truthiness of an optional string: None and "" are falsy.
Truthy(s) == s # None /\ s # ""

\* JSON values as json.load returns them.
I(n) == [t |-> "int", n |-> n]
S(s) == [t |-> "str", s |-> s]
F(tenths) == [t |-> "float", tenths |-> tenths]

DigitStr == ("0" :> 0) @@ ("1" :> 1) @@ ("2" :> 2) @@ ("3" :> 3)

\* int(x) raises ValueError/TypeError unless x is a number or a digit string.
IntOk(v) == \/ v.t \in {"int", "float"}
            \/ (v.t = "str" /\ v.s \in DOMAIN DigitStr)

\* int(x): identity on ints, truncation on (non-negative) floats, parsing on strings.
PyInt(v) == CASE v.t = "int" -> v.n
              [] v.t = "float" -> v.tenths \div 10
              [] v.t = "str" -> DigitStr[v.s]

MarkerPath == "markers.json"
TimelineName == "Timeline 1"

\* ---------------------------------------------------------------- create_marker
ColorNames == {"Red", "Green", "Blue", "Yellow", "Purple", "Orange", "Cyan", "Magenta", "White"}

color_map == ("Red" :> 1) @@ ("Green" :> 2) @@ ("Blue" :> 3) @@ ("Yellow" :> 4) @@
             ("Purple" :> 5) @@ ("Orange" :> 6) @@ ("Cyan" :> 7) @@ ("Magenta" :> 8) @@
             ("White" :> 0)

\* A lookup that ignores the case of the name.
color_index_nocase(color) ==
    IF color.t = "str" /\ color.s \in DOMAIN color_map THEN color_map[color.s]
    ELSE IF color.t = "str" /\ color.s = "red" THEN 1
    ELSE IF color.t = "str" /\ color.s = "WHITE" THEN 0
    ELSE 0

\* color_map.get(color, 0)
color_index(color) ==
    IF color.t = "str" /\ color.s \in DOMAIN color_map THEN color_map[color.s] ELSE 0

\* What the host does with one AddMarker call: it returns a truthy value and the
\* marker exists, it returns a falsy value, or it raises.
HostOutcomes == {"ok", "false", "raise"}

\* create_marker without its try/except: a host exception propagates.
create_marker_noexcept(outcome, frame_number, name, color, note) ==
    [call   |-> [frame |-> frame_number, color |-> color_index(color), name |-> name,
                 note |-> note, duration |-> 1],
     marker |-> IF outcome = "ok" THEN "True" ELSE IF outcome = "false" THEN "False" ELSE None,
     raised |-> outcome = "raise"]

\* create_marker: the AddMarker call it makes, the value it returns and whether an
\* exception leaves it.
create_marker(outcome, frame_number, name, color, note) ==
    [call   |-> [frame |-> frame_number, color |-> color_index(color), name |-> name,
                 note |-> note, duration |-> 1],
     marker |-> IF outcome = "ok" THEN "True" ELSE IF outcome = "false" THEN "False" ELSE None,
     raised |-> FALSE]

\* timeline.AddMarker in the host, when it succeeds: the marker is on the timeline.
AddMarker(mks, call) ==
    {m \in mks : m.frameId # call.frame} \cup
    {[frameId |-> call.frame, color |-> I(call.color), name |-> call.name,
      note |-> call.note, duration |-> call.duration]}

\* ---------------------------------------------------------------- get_timeline
get_timeline(timeline_name) ==
    IF Truthy(timeline_name)
    THEN IF timeline_name = TimelineName THEN TimelineName ELSE None
    ELSE current

get_timeline_out(timeline_name) ==
    IF Truthy(timeline_name) /\ timeline_name # TimelineName
    THEN {"timeline_not_found"} ELSE {}

\* ---------------------------------------------------------------- import_markers_from_json
RequiredKeys == <<"start", "name", "color", "note">>

\* The loop body's reads (lines 93-96) raise KeyError, ValueError or TypeError.
EntryRaises(e) ==
    \/ \E k \in 1..Len(RequiredKeys) : RequiredKeys[k] \notin DOMAIN e
    \/ ~IntOk(e.start)

\* A malformed file is read as the empty array.
import_open_lenient(content, timeline_name) ==
    IF content.k = "missing" THEN [enter |-> FALSE, out |-> {"file_not_found"}, tl |-> None, data |-> <<>>]
    ELSE IF content.k = "malformed"
    THEN [enter |-> TRUE, out |-> {"importing"}, tl |-> TimelineName, data |-> <<>>]
    ELSE IF get_timeline(timeline_name) = None
    THEN [enter |-> FALSE, out |-> get_timeline_out(timeline_name), tl |-> None, data |-> <<>>]
    ELSE IF content.k = "scalar"
    THEN [enter |-> FALSE, out |-> {"error_importing"}, tl |-> get_timeline(timeline_name), data |-> <<>>]
    ELSE [enter |-> TRUE, out |-> {"importing"}, tl |-> get_timeline(timeline_name), data |-> content.data]

\* Lines 81-89 with their handlers: open and json.load, get_timeline, the
\* "Importing N markers" line.  enter is FALSE when the function returns False here.
import_open(content, timeline_name) ==
    IF content.k = "missing" THEN [enter |-> FALSE, out |-> {"file_not_found"}, tl |-> None, data |-> <<>>]
    ELSE IF content.k = "malformed" THEN [enter |-> FALSE, out |-> {"invalid_json"}, tl |-> None, data |-> <<>>]
    ELSE IF get_timeline(timeline_name) = None
    THEN [enter |-> FALSE, out |-> get_timeline_out(timeline_name), tl |-> None, data |-> <<>>]
    ELSE IF content.k = "scalar"
    THEN [enter |-> FALSE, out |-> {"error_importing"}, tl |-> get_timeline(timeline_name), data |-> <<>>]
    ELSE [enter |-> TRUE, out |-> {"importing"}, tl |-> get_timeline(timeline_name), data |-> content.data]

\* Every attempt is counted as a success.
CountSuccess_always(cnt, marker) == cnt + 1

\* Lines 98-99: success_count += 1 when create_marker returned a truthy value.
CountSuccess(cnt, marker) == IF marker = "True" THEN cnt + 1 ELSE cnt

\* A failed entry is tried again.
NextIndex_retry(idx, marker) == IF marker = "True" THEN idx + 1 ELSE idx

\* Line 92: the for loop moves to the next entry whatever create_marker returned.
NextIndex(idx, marker) == idx + 1

\* ---------------------------------------------------------------- export_timeline_markers
RECURSIVE SortByFrame(_)
\* The markers GetMarkers returns, in ascending frame order.
SortByFrame(mks) ==
    IF mks = {} THEN <<>>
    ELSE LET m == CHOOSE x \in mks : \A y \in mks : x.frameId <= y.frameId
         IN <<m>> \o SortByFrame(mks \ {m})

\* Lines 139-145: the record written for one host marker.
ExportRecord(m) ==
    [frame |-> I(m.frameId), name |-> S(m.name), color |-> m.color, note |-> S(m.note),
     duration |-> I(m.duration)]

marker_list(mks) == [k \in 1..Cardinality(mks) |-> ExportRecord(SortByFrame(mks)[k])]

\* export_timeline_markers without the early return on an empty timeline.
export_timeline_markers_noearly(tl, mks, output_file, wr) ==
    IF tl = None THEN [ret |-> "False", out |-> {}, write |-> FALSE, raised |-> FALSE]
    ELSE IF Truthy(output_file)
    THEN IF wr = "ok"
         THEN [ret |-> "True", out |-> {"exported"}, write |-> TRUE, raised |-> FALSE]
         ELSE [ret |-> None, out |-> {}, write |-> FALSE, raised |-> TRUE]
    ELSE [ret |-> "True", out |-> {"found"}, write |-> FALSE, raised |-> FALSE]

\* export_timeline_markers on the resolved timeline tl with host markers mks; wr is
\* what open(output_file, 'w') does.  write: the file is written with marker_list;
\* raised: the OSError leaves the function.
export_timeline_markers(tl, mks, output_file, wr) ==
    IF tl = None THEN [ret |-> "False", out |-> {}, write |-> FALSE, raised |-> FALSE]
    ELSE IF mks = {} THEN [ret |-> "True", out |-> {"no_markers"}, write |-> FALSE, raised |-> FALSE]
    ELSE IF Truthy(output_file)
    THEN IF wr = "ok"
         THEN [ret |-> "True", out |-> {"exported"}, write |-> TRUE, raised |-> FALSE]
         ELSE [ret |-> None, out |-> {}, write |-> FALSE, raised |-> TRUE]
    ELSE [ret |-> "True", out |-> {"found"}, write |-> FALSE, raised |-> FALSE]

\* ---------------------------------------------------------------- main
\* The chain with import-markers tested before export-markers.
SelectOp_importfirst(a) ==
    IF a.list_timelines THEN "list"
    ELSE IF Truthy(a.markers) THEN "import"
    ELSE IF Truthy(a.export_markers) THEN "export"
    ELSE "help"

\* Lines 171-179: the if/elif chain.
SelectOp(a) ==
    IF a.list_timelines THEN "list"
    ELSE IF Truthy(a.export_markers) THEN "export"
    ELSE IF Truthy(a.markers) THEN "import"
    ELSE "help"

\* Line 177 for import; the other branches fall off the end of main.
ExitStatus(o, r) == IF o = "import" THEN (IF r = "True" THEN 0 ELSE 1) ELSE 0

\* ---------------------------------------------------------------- inputs
Rec(start, name, color, note) ==
    [start |-> start, name |-> S(name), color |-> S(color), note |-> S(note)]

\* Entries that lines 93-96 read without an exception.
WellFormedRecords ==
    { Rec(I(1), "goal", "Red", "x"),
      Rec(S("2"), "foul", "red", ""),
      Rec(F(25), "goal", "Pink", "x") }

\* Entries that lack one required key, or whose start is no number.
BrokenRecords ==
    { [name |-> S("goal"), color |-> S("Red"), note |-> S("x")],
      [start |-> I(1), color |-> S("Red"), note |-> S("x")],
      [start |-> I(1), name |-> S("goal"), note |-> S("x")],
      [start |-> I(1), name |-> S("goal"), color |-> S("Red")],
      Rec(S("abc"), "goal", "Red", "x") }

FileRecords == WellFormedRecords \cup BrokenRecords

ColorStrings == ColorNames \cup {"WHITE", "magenta", "Grey", ""}

Arrays ==
    UNION { [1..n -> FileRecords] : n \in 0..MaxLen } \cup
    { <<Rec(I(3), "goal", c, "x")>> : c \in ColorStrings }

\* What open and json.load find at MarkerPath.
FileContents ==
    { [k |-> "missing"], [k |-> "malformed"], [k |-> "scalar"] } \cup
    { [k |-> "array", data |-> a] : a \in Arrays }

HostMarkers ==
    { {}, {[frameId |-> 1, color |-> S("Blue"), name |-> "intro", note |-> "n", duration |-> 1]} }

MainArgs ==
    [caller : {"main"}, list_timelines : BOOLEAN, export_markers : {None, "", MarkerPath},
     markers : {None, "", MarkerPath}, timeline : {None, TimelineName, "Other"}]

\* A script that builds the helper and calls export_timeline_markers itself.
ApiArgs ==
    [caller : {"api"}, list_timelines : {FALSE}, export_markers : {None, MarkerPath},
     markers : {None}, timeline : {None, TimelineName, "Other"}]

NoArgs == [caller |-> "main", list_timelines |-> FALSE, export_markers |-> None,
           markers |-> None, timeline |-> None]

Init ==
    /\ hostApi \in {"noapi", "noresolve", "noproject", "ok"}
    /\ current \in {None, TimelineName}
    /\ markers \in HostMarkers
    /\ hostApi # "ok" => (current = None /\ markers = {})
    /\ fs \in FileContents
    /\ args = NoArgs
    /\ pc = "idle"
    /\ op = None
    /\ ops = <<>>
    /\ timeline = None
    /\ markers_data = <<>>
    /\ i = 1
    /\ success_count = 0
    /\ calls = <<>>
    /\ ret = None
    /\ exitCode = -1
    /\ out = {}
    /\ wrote = FALSE
    /\ unhandled = FALSE
    /\ markersAtStart = markers

\* ---------------------------------------------------------------- actions
host == <<hostApi, current>>
import_state == <<timeline, markers_data, i, success_count, calls>>

\* The script is started with a command line.
Start ==
    /\ pc \in {"idle", "done"}
    /\ \E a \in MainArgs \cup ApiArgs : args' = a
    /\ pc' = "connect"
    /\ op' = None
    /\ ops' = <<>>
    /\ timeline' = None
    /\ markers_data' = <<>>
    /\ i' = 1
    /\ success_count' = 0
    /\ calls' = <<>>
    /\ ret' = None
    /\ exitCode' = -1
    /\ out' = {}
    /\ wrote' = FALSE
    /\ unhandled' = FALSE
    /\ markersAtStart' = markers
    /\ UNCHANGED <<host, markers, fs>>

\* The import of DaVinciResolveScript and DaVinciResolveHelper.__init__.
Connect ==
    /\ pc = "connect"
    /\ IF hostApi = "ok"
       THEN /\ pc' = "dispatch"
            /\ UNCHANGED <<exitCode, out>>
       ELSE /\ pc' = "done"
            /\ exitCode' = 1
            /\ out' = out \cup {"error_" \o hostApi}
    /\ UNCHANGED <<host, markers, fs, args, op, ops, import_state, ret, wrote, unhandled,
                   markersAtStart>>

\* main's if/elif chain selects the operation.
Dispatch ==
    /\ pc = "dispatch"
    /\ args.caller = "main"
    /\ op' = SelectOp(args)
    /\ pc' = SelectOp(args)
    /\ UNCHANGED <<host, markers, fs, args, ops, import_state, ret, exitCode, out, wrote,
                   unhandled, markersAtStart>>

\* The calling script calls export_timeline_markers(timeline, output_file) itself.
CallExport ==
    /\ pc = "dispatch"
    /\ args.caller = "api"
    /\ op' = "export"
    /\ pc' = "export"
    /\ UNCHANGED <<host, markers, fs, args, ops, import_state, ret, exitCode, out, wrote,
                   unhandled, markersAtStart>>

ListTimelines ==
    /\ pc = "list"
    /\ ops' = Append(ops, "list")
    /\ out' = out \cup {"timelines"}
    /\ ret' = None
    /\ exitCode' = ExitStatus("list", None)
    /\ pc' = "done"
    /\ UNCHANGED <<host, markers, fs, args, op, import_state, wrote, unhandled, markersAtStart>>

PrintHelp ==
    /\ pc = "help"
    /\ ops' = Append(ops, "help")
    /\ out' = out \cup {"usage"}
    /\ ret' = None
    /\ exitCode' = ExitStatus("help", None)
    /\ pc' = "done"
    /\ UNCHANGED <<host, markers, fs, args, op, import_state, wrote, unhandled, markersAtStart>>

\* export_timeline_markers, and the end of main after it.
Export ==
    /\ pc = "export"
    /\ \E wr \in {"ok", "oserror"} :
         LET tl == get_timeline(args.timeline)
             r  == export_timeline_markers(tl, markers, args.export_markers, wr)
         IN /\ timeline' = tl
            /\ ret' = r.ret
            /\ out' = out \cup get_timeline_out(args.timeline) \cup r.out
            /\ wrote' = r.write
            /\ fs' = IF r.write THEN [k |-> "array", data |-> marker_list(markers)] ELSE fs
            /\ unhandled' = r.raised
            /\ exitCode' = IF r.raised THEN 1 ELSE ExitStatus("export", r.ret)
    /\ ops' = Append(ops, "export")
    /\ pc' = "done"
    /\ UNCHANGED <<host, markers, args, op, markers_data, i, success_count, calls, markersAtStart>>

\* import_markers_from_json up to the loop.
ImportOpen ==
    /\ pc = "import"
    /\ LET r == import_open(fs, args.timeline)
       IN /\ timeline' = r.tl
          /\ markers_data' = r.data
          /\ out' = out \cup r.out
          /\ IF r.enter
             THEN /\ pc' = "loop"
                  /\ UNCHANGED <<ret, exitCode>>
             ELSE /\ pc' = "done"
                  /\ ret' = "False"
                  /\ exitCode' = ExitStatus("import", "False")
    /\ ops' = Append(ops, "import")
    /\ UNCHANGED <<host, markers, fs, args, op, i, success_count, calls, wrote, unhandled,
                   markersAtStart>>

\* One pass of the for loop.
ImportStep ==
    /\ pc = "loop"
    /\ i <= Len(markers_data)
    /\ LET e == markers_data[i]
       IN IF EntryRaises(e)
          THEN /\ pc' = "done"
               /\ ret' = "False"
               /\ exitCode' = ExitStatus("import", "False")
               /\ out' = out \cup {"error_importing"}
               /\ UNCHANGED <<markers, i, success_count, calls>>
          ELSE \E outcome \in HostOutcomes :
                 LET r == create_marker(outcome, PyInt(e.start), e.name.s, e.color, e.note.s)
                 IN /\ calls' = Append(calls, [idx |-> i, outcome |-> outcome] @@ r.call)
                    /\ markers' = IF outcome = "ok" THEN AddMarker(markers, r.call) ELSE markers
                    /\ IF r.raised
                       THEN /\ pc' = "done"
                            /\ ret' = "False"
                            /\ exitCode' = ExitStatus("import", "False")
                            /\ out' = out \cup {"error_importing"}
                            /\ UNCHANGED <<i, success_count>>
                       ELSE /\ success_count' = CountSuccess(success_count, r.marker)
                            /\ i' = NextIndex(i, r.marker)
                            /\ out' = out \cup (IF outcome = "raise" THEN {"error_creating"} ELSE {})
                                          \cup (IF r.marker = "True" THEN {"created"} ELSE {"failed"})
                            /\ UNCHANGED <<pc, ret, exitCode>>
    /\ UNCHANGED <<host, fs, args, op, ops, timeline, markers_data, wrote, unhandled,
                   markersAtStart>>

\* The summary line, return True, and sys.exit.
ImportFinish ==
    /\ pc = "loop"
    /\ i > Len(markers_data)
    /\ out' = out \cup {"summary"}
    /\ ret' = "True"
    /\ exitCode' = ExitStatus("import", "True")
    /\ pc' = "done"
    /\ UNCHANGED <<host, markers, fs, args, op, ops, import_state, wrote, unhandled,
                   markersAtStart>>

Next ==
    \/ Start
    \/ Connect
    \/ Dispatch
    \/ CallExport
    \/ ListTimelines
    \/ PrintHelp
    \/ Export
    \/ ImportOpen
    \/ ImportStep
    \/ ImportFinish

Spec == Init /\ [][Next]_vars

\* ---------------------------------------------------------------- properties
MainRun == args.caller = "main"
ImportDone == MainRun /\ op = "import" /\ pc = "done"
LoopEntered == "importing" \in out
MissingKey(e) == \E k \in 1..Len(RequiredKeys) : RequiredKeys[k] \notin DOMAIN e
AllWellFormed == \A p \in 1..Len(markers_data) : ~EntryRaises(markers_data[p])
OkCalls == {k \in 1..Len(calls) : calls[k].outcome = "ok"}
Attempted(p) == \E k \in 1..Len(calls) : calls[k].idx = p

\* C1: an entry that lacks a required key is counted as a failure and every later
\* well-formed entry still gets its marker creation attempt.
C1_MissingKeyDoesNotStopImport ==
    (ImportDone /\ LoopEntered) =>
        \A p \in 1..Len(markers_data) :
            MissingKey(markers_data[p]) =>
                /\ ~Attempted(p)
                /\ success_count <= Len(markers_data) - 1
                /\ \A q \in (p + 1)..Len(markers_data) :
                       ~EntryRaises(markers_data[q]) => Attempted(q)

\* C2: with a readable well-formed file and a resolved timeline, a record whose
\* AddMarker call raises or returns a falsy value is counted as a failure, the loop
\* goes on with the next record, and the function returns True however many failed.
C2_HostFailuresAreCountedAndSkipped ==
    (MainRun /\ op = "import" /\ LoopEntered /\ AllWellFormed) =>
        /\ \A k \in 1..Len(calls) : calls[k].idx = k
        /\ success_count = Cardinality(OkCalls)
        /\ pc = "loop" => i = Len(calls) + 1
        /\ pc = "done" => /\ Len(calls) = Len(markers_data)
                          /\ ret = "True"
                          /\ exitCode = 0

C2_Witness ==
    /\ ImportDone /\ LoopEntered /\ AllWellFormed
    /\ Len(calls) = 2
    /\ calls[1].outcome = "raise"
    /\ calls[2].outcome = "false"
    /\ success_count = 0
    /\ ret = "True"

\* C3 as stated: N well-formed records and a reachable timeline give N/N and success.
C3_AllWellFormedGivesNofN ==
    (ImportDone /\ LoopEntered /\ AllWellFormed) =>
        /\ success_count = Len(markers_data)
        /\ ret = "True"

\* C3 as amended: N well-formed records and a reachable timeline give success and
\* k/N, k the number of records whose AddMarker call returned a truthy value; N/N
\* exactly when every host call succeeded, and 0/0 for the empty array.
C3_SuccessCountIsHostSuccesses ==
    (ImportDone /\ LoopEntered /\ AllWellFormed) =>
        /\ ret = "True"
        /\ "summary" \in out
        /\ success_count + Cardinality({k \in 1..Len(calls) : calls[k].outcome # "ok"})
               = Len(markers_data)
        /\ (success_count = Len(markers_data)) <=> (\A k \in 1..Len(calls) : calls[k].outcome = "ok")
        /\ markers_data = <<>> => success_count = 0

C3_Witness ==
    /\ ImportDone /\ LoopEntered /\ AllWellFormed
    /\ Len(markers_data) = 2
    /\ success_count = 2
    /\ ret = "True"

ExportDone == op = "export" /\ pc = "done"

\* C4 as stated: export of a resolved timeline without markers returns success and
\* writes an empty array to the output path when one is given, and prints the
\* "no markers" message when none is given.
C4_EmptyExportWritesEmptyFile ==
    (ExportDone /\ timeline # None /\ markers = {} /\ ~unhandled) =>
        /\ ret = "True"
        /\ Truthy(args.export_markers) => (wrote /\ fs = [k |-> "array", data |-> <<>>])
        /\ ~Truthy(args.export_markers) => "no_markers" \in out

\* C4 as amended: export of a resolved timeline without markers returns success,
\* prints the "no markers" message and writes no file, whether or not an output
\* path is given.
C4_EmptyExportWritesNothing ==
    (ExportDone /\ timeline # None /\ markers = {}) =>
        /\ ret = "True"
        /\ "no_markers" \in out
        /\ ~wrote
        /\ ~unhandled
        /\ out \cap {"exported", "found"} = {}

C4_Witness ==
    /\ ExportDone /\ MainRun
    /\ timeline # None
    /\ markers = {}
    /\ args.export_markers = MarkerPath
    /\ ret = "True"
    /\ fs.k = "missing"

\* C5: import of a missing file or of malformed JSON returns False with no exception
\* escaping, makes no AddMarker call, leaves the host markers as they were, and the
\* process exits with status 1.
C5_FileErrorFailsCleanly ==
    (ImportDone /\ fs.k \in {"missing", "malformed"}) =>
        /\ ret = "False"
        /\ ~unhandled
        /\ calls = <<>>
        /\ markers = markersAtStart
        /\ exitCode = 1

C5_Witness ==
    /\ ImportDone
    /\ fs.k = "malformed"
    /\ "invalid_json" \in out
    /\ exitCode = 1

\* C6: the exit status is 0 when the selected operation succeeded and 1 when it
\* failed; status 0 never follows an operation that returned failure.
C6_ExitStatusReflectsOutcome ==
    (MainRun /\ pc = "done") =>
        (exitCode = 0 <=> (hostApi = "ok" /\ ret # "False" /\ ~unhandled))

Given(x) == x # None
OpsSet == {ops[k] : k \in 1..Len(ops)}

\* C7 as stated, for the runs that reach main's if/elif chain: the run performs
\* exactly one operation, chosen among the flags given by the priority list, export,
\* import, and help only when none of the three is given.
C7_ExactlyOneOperationByFlagsGiven ==
    (MainRun /\ pc = "done" /\ hostApi = "ok") =>
        /\ Len(ops) = 1
        /\ ops[1] = IF args.list_timelines THEN "list"
                    ELSE IF Given(args.export_markers) THEN "export"
                    ELSE IF Given(args.markers) THEN "import"
                    ELSE "help"

\* C7 as amended: no run performs two operations; a run whose host session is
\* established performs exactly one, chosen by the priority list, export, import
\* among the flags given with a non-empty value, and help only when there is none.
C7_ExactlyOneOperationByNonEmptyFlags ==
    MainRun =>
        /\ Len(ops) <= 1
        /\ (pc = "done" /\ hostApi = "ok") =>
              /\ Len(ops) = 1
              /\ ops[1] = IF args.list_timelines THEN "list"
                          ELSE IF args.export_markers \notin {None, ""} THEN "export"
                          ELSE IF args.markers \notin {None, ""} THEN "import"
                          ELSE "help"
        /\ (pc = "done" /\ hostApi # "ok") => ops = <<>>

C7_Witness ==
    /\ MainRun /\ pc = "done"
    /\ ~args.list_timelines
    /\ args.export_markers = MarkerPath
    /\ args.markers = MarkerPath
    /\ ops = <<"export">>

C8_Table(s) ==
    CASE s = "Red" -> 1 [] s = "Green" -> 2 [] s = "Blue" -> 3 [] s = "Yellow" -> 4
      [] s = "Purple" -> 5 [] s = "Orange" -> 6 [] s = "Cyan" -> 7 [] s = "Magenta" -> 8
      [] s = "White" -> 0 [] OTHER -> 0

\* C8: the color index of every AddMarker call is the table value of the entry's
\* color name, matched case-sensitively, and 0 for any other string.
C8_ColorIndexMatchesTable ==
    \A k \in 1..Len(calls) :
        calls[k].color = C8_Table(markers_data[calls[k].idx].color.s)

C8_Witness ==
    /\ Len(calls) = 1
    /\ markers_data[1].color = S("Magenta")
    /\ calls[1].color = 8

C9_Inv ==
    (op = "import") =>
        /\ \A k \in 1..Len(calls) : calls[k].idx < i
        /\ \A k, l \in 1..Len(calls) : k < l => calls[k].idx < calls[l].idx
        /\ Len(calls) <= i - 1
        /\ success_count <= i - 1

C9_Step ==
    pc' # "connect" => /\ success_count' >= success_count
                       /\ Len(calls') >= Len(calls)
                       /\ SubSeq(calls', 1, Len(calls)) = calls

\* C9: AddMarker is called at most once per entry and in array order, a failed
\* entry is never retried, the calls made and the success count never exceed the
\* entries processed so far, and the success count never decreases during a run.
C9_OnePassNoRetry == []C9_Inv /\ [][C9_Step]_vars

C9_Witness ==
    /\ op = "import"
    /\ Len(calls) = 2
    /\ calls[1].outcome = "false"
    /\ calls[1].idx = 1
    /\ calls[2].idx = 2

IsExportRecord(e) == DOMAIN e = {"frame", "name", "color", "note", "duration"}

\* C10: a file written by export_timeline_markers is accepted by
\* import_markers_from_json, which attempts one marker per record at the record's
\* frame position.
C10_ExportedFileIsImported ==
    (ImportDone /\ LoopEntered /\ markers_data # <<>>
        /\ \A p \in 1..Len(markers_data) : IsExportRecord(markers_data[p])) =>
        /\ ret = "True"
        /\ Len(calls) = Len(markers_data)
        /\ \A k \in 1..Len(calls) : calls[k].frame = PyInt(markers_data[k].frame)

====
